---- MODULE Spec2Model ----
(***************************************************************************)
(* Model of codeclip.py: the filtered directory sketch                     *)
(* (get_filtered_directory_structure) and the content walk of              *)
(* process_files, run over small directory trees.                          *)
(*                                                                         *)
(* Text is modelled as sequences of one-character strings, a path as the   *)
(* sequence of its components below the scanned directory, the document    *)
(* `result` as the sequence of elements the code appends to it.            *)
(***************************************************************************)
EXTENDS Integers, Sequences, FiniteSets, TLC

VARIABLES
    tree,         \* the directory tree: a set of [path, kind] entries
    denied,       \* directories whose listing raises PermissionError
    extensions,   \* option: list of extensions
    exclude_dirs, \* set of excluded directory basenames
    max_size,     \* option: integer, KB
    max_depth,    \* option: integer
    pc,           \* "start", "walk", "done", "failed"
    result,       \* the list `result` of process_files
    file_count,   \* the counter file_count
    stack,        \* os.walk: directories still to be yielded, next first
    root,         \* os.walk: the directory yielded last
    files,        \* the rest of `sorted(files)` of the directory `root`
    visited,      \* directories os.walk has yielded
    stats,        \* [path, size] of every os.stat call that returned
    opened        \* paths open() was called on

vars == <<tree, denied, extensions, exclude_dirs, max_size, max_depth, pc,
          result, file_count, stack, root, files, visited, stats, opened>>

config == <<tree, denied, extensions, exclude_dirs, max_size, max_depth>>

----------------------------------------------------------------------------
(* Bounds and constants *)

\* deepest directory level of the trees explored (the scanned directory is 0)
MaxTreeDepth == 2

\* line 129: max_size * 1024; lines 24-27: the unit step of format_size
KB == 1024

----------------------------------------------------------------------------
(* Optional arguments: Python's None *)

NoneInt == [some |-> FALSE, v |-> 0]
SomeInt(n) == [some |-> TRUE, v |-> n]
NoneList == [some |-> FALSE, v |-> <<>>]
SomeList(l) == [some |-> TRUE, v |-> l]

----------------------------------------------------------------------------
(* Text *)

Ord(c) ==
    CASE c = "." -> 46
      [] c = "/" -> 47
      [] c = "a" -> 97
      [] c = "p" -> 112
      [] c = "r" -> 114
      [] c = "s" -> 115
      [] c = "x" -> 120

\* str.__lt__: codepoint-wise lexicographic order
RECURSIVE StrLess(_, _)
StrLess(a, b) ==
    IF b = <<>> THEN FALSE
    ELSE IF a = <<>> THEN TRUE
    ELSE IF Ord(Head(a)) # Ord(Head(b)) THEN Ord(Head(a)) < Ord(Head(b))
    ELSE StrLess(Tail(a), Tail(b))

\* str.endswith
EndsWith(s, suffix) ==
    /\ Len(suffix) <= Len(s)
    /\ SubSeq(s, Len(s) - Len(suffix) + 1, Len(s)) = suffix

\* sorted(...) of a collection of distinct strings
RECURSIVE Sorted(_)
Sorted(S) ==
    IF S = {} THEN <<>>
    ELSE LET m == CHOOSE x \in S : \A y \in S \ {x} : StrLess(x, y)
         IN  <<m>> \o Sorted(S \ {m})

\* the string of the scanned directory itself
DirectoryStr == <<"r">>

\* os.path.join(directory, c1, ..., cn) for the components p = <<c1, ..., cn>>
RECURSIVE PathStr(_)
PathStr(p) ==
    IF p = <<>> THEN DirectoryStr
    ELSE PathStr(SubSeq(p, 1, Len(p) - 1)) \o <<"/">> \o p[Len(p)]

Last(s) == s[Len(s)]
Parent(p) == SubSeq(p, 1, Len(p) - 1)

----------------------------------------------------------------------------
(* The file system *)

IsPrefix(p, q) == Len(p) <= Len(q) /\ SubSeq(q, 1, Len(p)) = p

\* os.path.isdir
IsDir(p) == p = <<>> \/ [path |-> p, kind |-> "dir"] \in tree

\* the names os.listdir / os.scandir return for a listable directory
ListDir(p) == {Last(e.path) : e \in {e \in tree : e.path # <<>> /\ Parent(e.path) = p}}

SubDirs(p) == {n \in ListDir(p) : IsDir(p \o <<n>>)}
NonDirs(p) == {n \in ListDir(p) : ~IsDir(p \o <<n>>)}

\* the directories os.walk(top) yields when nothing is pruned: scandir errors
\* are ignored, an unlistable directory is not yielded and not descended into
WalkYields(top) ==
    {d \in {e.path : e \in tree} \cup {<<>>} :
        /\ IsDir(d)
        /\ IsPrefix(top, d)
        /\ \A k \in Len(top)..Len(d) : SubSeq(d, 1, k) \notin denied}

----------------------------------------------------------------------------
(* format_size *)

\* round(n / d) to an integer, ties to even: what '.2f' prints of an exact value
RoundHalfEven(n, d) ==
    LET q == n \div d
        r == n % d
    IN  IF 2 * r > d \/ (2 * r = d /\ q % 2 = 1) THEN q + 1 ELSE q

Units == <<"B", "KB", "MB", "GB">>

RECURSIVE FormatSizeFrom(_, _, _)
FormatSizeFrom(num, den, i) ==
    IF num < KB * den \/ Units[i] = "GB"
    THEN [hundredths |-> RoundHalfEven(num * 100, den), unit |-> Units[i]]
    ELSE FormatSizeFrom(num, den * KB, i + 1)

FormatSize(size_bytes) == FormatSizeFrom(size_bytes, 1, 1)

----------------------------------------------------------------------------
(* should_include_file *)

AnyEndsWith(s, exts) ==
    \E i \in 1..Len(exts) : EndsWith(s, <<".">> \o exts[i])

should_include_file(file_path, exts) ==
    IF ~exts.some THEN TRUE ELSE AnyEndsWith(file_path, exts.v)

----------------------------------------------------------------------------
(* get_filtered_directory_structure *)

\* A line of the sketch: `indent` two-space steps, then `text`
Line(text) == [indent |-> 0, text |-> text]

\* "  " + "\n  ".join(sub_structure.split("\n")): every line moves right
Indented(lines) == [i \in DOMAIN lines |-> [lines[i] EXCEPT !.indent = @ + 1]]

\* line 39: the call is past the depth limit
SketchTooDeep(current_depth) == max_depth.some /\ current_depth > max_depth.v

\* line 49: the entry is an excluded directory
SketchExcludes(item_path, item) ==
    IsDir(item_path) /\ exclude_dirs # {} /\ item \in exclude_dirs

\* lines 54-66: the subtree scan; the loop over exclude_dirs changes nothing
HasMatchingFiles(item_path) ==
    \E d \in WalkYields(item_path) : \E f \in NonDirs(d) :
        should_include_file(PathStr(d \o <<f>>), extensions)

\* line 68
ListsDirectory(item_path) == HasMatchingFiles(item_path) \/ ~extensions.some

\* line 70 with <= for <
SketchDescends_Le(current_depth) == ~max_depth.some \/ current_depth <= max_depth.v

\* line 70
SketchDescends(current_depth) == ~max_depth.some \/ current_depth < max_depth.v

\* line 40: "..."
EllipsisText == <<".", ".", ".">>

\* line 79: "(Permission denied)", shortened
PermissionDeniedText == <<"(", "d", "e", "n", "i", "e", "d", ")">>

RECURSIVE GetStructure(_, _)
RECURSIVE ItemsStructure(_, _, _)

\* lines 46-77: the lines one entry of the directory `path` contributes
ItemStructure(path, item, current_depth) ==
    LET item_path == path \o <<item>>
    IN  IF SketchExcludes(item_path, item) THEN <<>>
        ELSE IF IsDir(item_path) THEN
            IF ListsDirectory(item_path)
            THEN <<Line(item \o <<"/">>)>> \o
                 (IF SketchDescends(current_depth)
                  THEN Indented(GetStructure(item_path, current_depth + 1))
                  ELSE <<>>)
            ELSE <<>>
        ELSE IF should_include_file(PathStr(item_path), extensions)
             THEN <<Line(item)>>
             ELSE <<>>

\* line 45: the loop over the sorted entries
ItemsStructure(path, items, current_depth) ==
    IF items = <<>> THEN <<>>
    ELSE ItemStructure(path, Head(items), current_depth)
         \o ItemsStructure(path, Tail(items), current_depth)

\* lines 37-81; the returned string as the sequence of its lines
\* (the empty string is the empty sequence)
GetStructure(path, current_depth) ==
    IF SketchTooDeep(current_depth) THEN <<Line(EllipsisText)>>
    ELSE IF path \in denied THEN <<Line(PermissionDeniedText)>>
    ELSE ItemsStructure(path, Sorted(ListDir(path)), current_depth)

get_filtered_directory_structure == GetStructure(<<>>, 0)

----------------------------------------------------------------------------
(* The elements process_files appends to `result` *)

Element(t, path, size, lines, count, msg) ==
    [t |-> t, path |-> path, size |-> size, lines |-> lines, count |-> count, msg |-> msg]

NoSize == [hundredths |-> 0, unit |-> ""]

\* line 157: "# CodeClip Output - <file_count> files from <abspath>\n"
SummaryEl(n) == Element("Summary", <<>>, NoSize, <<>>, n, "")
\* line 96: "# Directory Structure (Filtered)\n```"
StructureHeaderEl == Element("StructureHeader", <<>>, NoSize, <<>>, 0, "")
\* line 97: the sketch
StructureEl(lines) == Element("Structure", <<>>, NoSize, lines, 0, "")
\* line 98: "```\n"
StructureEndEl == Element("StructureEnd", <<>>, NoSize, <<>>, 0, "")
\* line 101: "# Source Files\n"
SourceFilesEl == Element("SourceFiles", <<>>, NoSize, <<>>, 0, "")
\* line 130: "# SKIPPED (TOO LARGE): <relpath>"
SkippedEl(p) == Element("Skipped", p, NoSize, <<>>, 0, "")
\* line 131: "# Size: <format_size>"
SkippedSizeEl(size) == Element("SkippedSize", <<>>, FormatSize(size), <<>>, 0, "")
\* lines 132, 149, 154: ""
BlankEl == Element("Blank", <<>>, NoSize, <<>>, 0, "")
\* line 139: "## File: <relpath>"
FileHeaderEl(p) == Element("FileHeader", p, NoSize, <<>>, 0, "")
\* line 140: "## Size: <format_size> | Last Modified: <mod_time>"
MetaEl(size) == Element("Meta", <<>>, FormatSize(size), <<>>, 0, "")
\* lines 141, 148: "```"
FenceEl == Element("Fence", <<>>, NoSize, <<>>, 0, "")
\* line 146: the content read from the file at p
ContentEl(p) == Element("Content", p, NoSize, <<>>, 0, "")
\* line 153: "# ERROR reading <relpath>: <str(e)>"
ErrorEl(p, e) == Element("Error", p, NoSize, <<>>, 0, e)

----------------------------------------------------------------------------
(* process_files: the content walk *)

\* the pruning of line 107 left out
PrunedDirs_Keep(dirs) == dirs

\* line 107: dirs[:] = [d for d in dirs if d not in exclude_dirs]
PrunedDirs(dirs) == {d \in dirs : d \notin exclude_dirs}

\* lines 110-111: depth of the yielded directory below the scanned one;
\* the relative path of p has Len(p) - 1 separators
CurrentDepth(p) == IF p = <<>> THEN 0 ELSE (Len(p) - 1) + 1

\* line 112
DepthLimitReached(current_depth) ==
    max_depth.some /\ current_depth >= max_depth.v

\* line 118: the file is filtered out by its extension
FilteredOut(file) ==
    /\ extensions.some /\ extensions.v # <<>>
    /\ ~AnyEndsWith(file, extensions.v)

\* line 129 with >= for >
TooLargeSize_Ge(file_size) == max_size.some /\ file_size >= max_size.v * KB

\* line 129
TooLargeSize(file_size) == max_size.some /\ file_size > max_size.v * KB

\* every order in which scandir may hand out the entries of a set
Orders(S) ==
    {o \in [1..Cardinality(S) -> S] : \A i, j \in 1..Cardinality(S) : o[i] = o[j] => i = j}

----------------------------------------------------------------------------
(* The inputs explored *)

DirNames == {<<"s">>, <<"x">>}
FileNames == {<<"a", ".", "p">>, <<"x">>}

\* all sequences over S of length n
RECURSIVE SeqsOfLen(_, _)
SeqsOfLen(S, n) ==
    IF n = 0 THEN {<<>>}
    ELSE {<<x>> \o t : x \in S, t \in SeqsOfLen(S, n - 1)}

Spines == UNION {SeqsOfLen(DirNames, n) : n \in 0..MaxTreeDepth}

\* a chain of directories with files in the scanned directory and in the last
\* one, and any of the `side` directories, of one file, in the scanned directory
TreeOf(spine, top_files, deep_files, side) ==
    {[path |-> SubSeq(spine, 1, k), kind |-> "dir"] : k \in 1..Len(spine)}
    \cup {[path |-> <<f>>, kind |-> "file"] : f \in top_files}
    \cup {[path |-> spine \o <<f>>, kind |-> "file"] : f \in deep_files}
    \cup {[path |-> <<sd.name>>, kind |-> "dir"] : sd \in side}
    \cup UNION {{[path |-> <<sd.name, f>>, kind |-> "file"] : f \in sd.files} : sd \in side}

AtMostOne(S) == {{}} \cup {{x} : x \in S}

SideDirs == AtMostOne({[name |-> n, files |-> {<<"a", ".", "p">>}] : n \in DirNames})

\* no path is both a file and a directory
WellFormed(t) ==
    /\ \A e1, e2 \in t : e1.path = e2.path => e1.kind = e2.kind
    /\ \A e \in t : e.path # <<>> /\ (Len(e.path) > 1 => [path |-> Parent(e.path), kind |-> "dir"] \in t)

Trees ==
    {t \in {TreeOf(sp, tf, df, sd) :
                sp \in Spines,
                tf \in SUBSET FileNames,
                df \in AtMostOne(FileNames),
                sd \in SideDirs} :
        WellFormed(t)}

DirsOf(t) == {<<>>} \cup {e.path : e \in {e \in t : e.kind = "dir"}}

\* file sizes os.stat reports: at the limit of max_size 1, and one byte more
Sizes == {KB, KB + 1}

\* main, lines 186-188: --extensions absent or empty is None, else a list of
\* at least one string
CliExtensions == {NoneList, SomeList(<<<<"p">>>>)}
\* process_files called with any list, the empty one included
ApiExtensions == CliExtensions \cup {SomeList(<<>>)}

\* main, lines 191-193
ExcludeSets == {{}, {<<"x">>}}

\* main, line 174: --max-size is always an integer
CliMaxSizes == {SomeInt(1)}
\* process_files, line 84: max_size=None
ApiMaxSizes == CliMaxSizes \cup {NoneInt}

\* main, line 176
MaxDepths == {NoneInt} \cup {SomeInt(d) : d \in 0..MaxTreeDepth}

InitWith(exts, sizes) ==
    /\ tree \in Trees
    /\ denied \in {{}} \cup {{d} : d \in DirsOf(tree)}
    /\ extensions \in exts
    /\ exclude_dirs \in ExcludeSets
    /\ max_size \in sizes
    /\ max_depth \in MaxDepths
    /\ pc = "start"
    /\ result = <<>>
    /\ file_count = 0
    /\ stack = <<>>
    /\ root = <<>>
    /\ files = <<>>
    /\ visited = {}
    /\ stats = {}
    /\ opened = {}

\* the program run from the command line
Init == InitWith(CliExtensions, CliMaxSizes)

\* process_files called directly
InitApi == InitWith(ApiExtensions, ApiMaxSizes)

----------------------------------------------------------------------------
(* process_files, step by step *)

\* lines 86-103: the sketch and the section headers; os.walk starts at the top
BuildStructure ==
    /\ pc = "start"
    /\ result' = <<StructureHeaderEl,
                   StructureEl(get_filtered_directory_structure),
                   StructureEndEl,
                   SourceFilesEl>>
    /\ file_count' = 0
    /\ stack' = << <<>> >>
    /\ pc' = "walk"
    /\ UNCHANGED <<config, root, files, visited, stats, opened>>

Walking == pc = "walk" /\ files = <<>> /\ stack # <<>>

\* line 105: os.walk drops a directory it cannot list
WalkUnlistable ==
    /\ Walking
    /\ Head(stack) \in denied
    /\ stack' = Tail(stack)
    /\ UNCHANGED <<config, pc, result, file_count, root, files, visited, stats, opened>>

\* lines 105-114: a directory at or past the depth limit is yielded, its
\* subdirectories are dropped and the loop continues with the next directory
WalkDepthLimited ==
    /\ Walking
    /\ Head(stack) \notin denied
    /\ DepthLimitReached(CurrentDepth(Head(stack)))
    /\ root' = Head(stack)
    /\ visited' = visited \cup {Head(stack)}
    /\ stack' = Tail(stack)
    /\ files' = <<>>
    /\ UNCHANGED <<config, pc, result, file_count, stats, opened>>

\* lines 105-116: a directory within the limit: its kept subdirectories are
\* walked next, in scandir's order, after its sorted files
WalkDir ==
    /\ Walking
    /\ Head(stack) \notin denied
    /\ ~DepthLimitReached(CurrentDepth(Head(stack)))
    /\ \E o \in Orders(PrunedDirs(SubDirs(Head(stack)))) :
         stack' = [i \in DOMAIN o |-> Head(stack) \o <<o[i]>>] \o Tail(stack)
    /\ root' = Head(stack)
    /\ visited' = visited \cup {Head(stack)}
    /\ files' = Sorted(NonDirs(Head(stack)))
    /\ UNCHANGED <<config, pc, result, file_count, stats, opened>>

InFile == pc = "walk" /\ files # <<>>
file_path == root \o <<Head(files)>>

\* lines 118-119
FilterOut ==
    /\ InFile
    /\ FilteredOut(Head(files))
    /\ files' = Tail(files)
    /\ UNCHANGED <<config, pc, result, file_count, stack, root, visited, stats, opened>>

\* lines 125, 152-154: os.stat raises PermissionError
StatPermissionError ==
    /\ InFile
    /\ ~FilteredOut(Head(files))
    /\ result' = result \o <<ErrorEl(file_path, "PermissionError"), BlankEl>>
    /\ files' = Tail(files)
    /\ UNCHANGED <<config, pc, file_count, stack, root, visited, stats, opened>>

\* lines 125, 152, 216-218: os.stat raises another OSError (FileNotFoundError
\* of a dangling link or a file removed meanwhile); no handler in
\* process_files, main prints the error and exits with status 1
StatOSError ==
    /\ InFile
    /\ ~FilteredOut(Head(files))
    /\ pc' = "failed"
    /\ UNCHANGED <<config, result, file_count, stack, root, files, visited, stats, opened>>

\* lines 125-133
TooLarge ==
    /\ InFile
    /\ ~FilteredOut(Head(files))
    /\ \E file_size \in Sizes :
        /\ TooLargeSize(file_size)
        /\ stats' = stats \cup {[path |-> file_path, size |-> file_size]}
        /\ result' = result \o <<SkippedEl(file_path), SkippedSizeEl(file_size), BlankEl>>
    /\ files' = Tail(files)
    /\ UNCHANGED <<config, pc, file_count, stack, root, visited, opened>>

\* lines 125-150
ReadOk ==
    /\ InFile
    /\ ~FilteredOut(Head(files))
    /\ \E file_size \in Sizes :
        /\ ~TooLargeSize(file_size)
        /\ stats' = stats \cup {[path |-> file_path, size |-> file_size]}
        /\ result' = result \o <<FileHeaderEl(file_path), MetaEl(file_size), FenceEl,
                                 ContentEl(file_path), FenceEl, BlankEl>>
    /\ opened' = opened \cup {file_path}
    /\ file_count' = file_count + 1
    /\ files' = Tail(files)
    /\ UNCHANGED <<config, pc, stack, root, visited>>

\* ReadError with file_count incremented before the read instead of after it
ReadError_Counting ==
    /\ InFile
    /\ ~FilteredOut(Head(files))
    /\ \E file_size \in Sizes, e \in {"PermissionError", "IsADirectoryError"} :
        /\ ~TooLargeSize(file_size)
        /\ stats' = stats \cup {[path |-> file_path, size |-> file_size]}
        /\ result' = result \o <<FileHeaderEl(file_path), MetaEl(file_size), FenceEl,
                                 ErrorEl(file_path, e), BlankEl>>
    /\ opened' = opened \cup {file_path}
    /\ file_count' = file_count + 1
    /\ files' = Tail(files)
    /\ UNCHANGED <<config, pc, stack, root, visited>>

\* lines 125-144, 152-154: open raises PermissionError or IsADirectoryError
ReadError ==
    /\ InFile
    /\ ~FilteredOut(Head(files))
    /\ \E file_size \in Sizes, e \in {"PermissionError", "IsADirectoryError"} :
        /\ ~TooLargeSize(file_size)
        /\ stats' = stats \cup {[path |-> file_path, size |-> file_size]}
        /\ result' = result \o <<FileHeaderEl(file_path), MetaEl(file_size), FenceEl,
                                 ErrorEl(file_path, e), BlankEl>>
    /\ opened' = opened \cup {file_path}
    /\ files' = Tail(files)
    /\ UNCHANGED <<config, pc, file_count, stack, root, visited>>

\* lines 125-144, 152, 216-218: open raises another OSError
OpenOSError ==
    /\ InFile
    /\ ~FilteredOut(Head(files))
    /\ \E file_size \in Sizes :
        /\ ~TooLargeSize(file_size)
        /\ stats' = stats \cup {[path |-> file_path, size |-> file_size]}
        /\ result' = result \o <<FileHeaderEl(file_path), MetaEl(file_size), FenceEl>>
    /\ opened' = opened \cup {file_path}
    /\ pc' = "failed"
    /\ UNCHANGED <<config, file_count, stack, root, files, visited>>

\* lines 156-159
Finish ==
    /\ pc = "walk"
    /\ files = <<>>
    /\ stack = <<>>
    /\ result' = <<SummaryEl(file_count)>> \o result
    /\ pc' = "done"
    /\ UNCHANGED <<config, file_count, stack, root, files, visited, stats, opened>>

Next ==
    \/ BuildStructure
    \/ WalkUnlistable
    \/ WalkDepthLimited
    \/ WalkDir
    \/ FilterOut
    \/ StatPermissionError
    \/ StatOSError
    \/ TooLarge
    \/ ReadOk
    \/ ReadError
    \/ OpenOSError
    \/ Finish

Spec == Init /\ [][Next]_vars

SpecApi == InitApi /\ [][Next]_vars

----------------------------------------------------------------------------
(* Reading the document back *)

Built == pc # "start"

\* the lines of the structure sketch inside the document
SketchLines ==
    LET i == CHOOSE i \in DOMAIN result : result[i].t = "Structure"
    IN  result[i].lines

IsPlaceholder(line) == line.text \in {EllipsisText, PermissionDeniedText}
IsDirLine(line) == ~IsPlaceholder(line) /\ Last(line.text) = "/"
LineName(line) ==
    IF IsDirLine(line) THEN SubSeq(line.text, 1, Len(line.text) - 1) ELSE line.text

\* the path a line of the sketch stands for: its name below the path of the
\* nearest line above it that is indented less
RECURSIVE LinePath(_, _)
LinePath(lines, i) ==
    LET above == {j \in 1..(i - 1) : lines[j].indent < lines[i].indent}
    IN  IF above = {} THEN <<LineName(lines[i])>>
        ELSE LinePath(lines, CHOOSE j \in above : \A k \in above : k <= j)
             \o <<LineName(lines[i])>>

LineKind(line) ==
    IF IsPlaceholder(line) THEN "placeholder"
    ELSE IF IsDirLine(line) THEN "dir" ELSE "file"

\* what the sketch shows: the path and kind of each of its lines
SketchEntries ==
    {[path |-> LinePath(SketchLines, i), kind |-> LineKind(SketchLines[i])] :
        i \in DOMAIN SketchLines}

ShowsDir(p) == [path |-> p, kind |-> "dir"] \in SketchEntries
ShowsFile(p) == [path |-> p, kind |-> "file"] \in SketchEntries

\* the records of the Source Files section
RecordKinds == {"FileHeader", "Skipped", "Error"}
Records == {i \in DOMAIN result : result[i].t \in RecordKinds}
RecordsOf(p) == {i \in Records : result[i].path = p}
ElementsOf(t, p) == {i \in DOMAIN result : result[i].t = t /\ result[i].path = p}

TreeFiles == {e.path : e \in {e \in tree : e.kind = "file"}}
TreeDirs == {e.path : e \in {e \in tree : e.kind = "dir"}}

\* the file name ends with '.' + one of the extensions, or there is no filter
PassesExtensions(name) ==
    \/ ~extensions.some
    \/ \E i \in 1..Len(extensions.v) : EndsWith(name, <<".">> \o extensions.v[i])

----------------------------------------------------------------------------
(* Claims *)

NameAP == <<"a", ".", "p">>
NameS == <<"s">>
NameX == <<"x">>

\* C1: every file that passes the extension filter, in a directory whose
\* files the content walk goes through, gets exactly one record (a File
\* block, a SKIPPED block or an ERROR block), and a failing stat of one file
\* yields an error block and does not abort the walk.
C1_EveryFileRecordedOnce ==
    /\ ~(pc = "failed" /\ file_path \notin opened)
    /\ pc = "done" =>
         \A d \in visited :
            ~(max_depth.some /\ Len(d) >= max_depth.v) =>
                \A f \in NonDirs(d) :
                    PassesExtensions(f) => Cardinality(RecordsOf(d \o <<f>>)) = 1

\* C2: no line of the sketch names a file or directory entry whose basename
\* is excluded, and no record of Source Files is of a file beneath a
\* directory whose basename is excluded.
C2_NoExcludedNameAnywhere ==
    Built =>
        /\ \A e \in SketchEntries :
              e.kind # "placeholder" =>
                  \A k \in 1..Len(e.path) : e.path[k] \notin exclude_dirs
        /\ \A i \in Records :
              \A k \in 1..(Len(result[i].path) - 1) :
                  result[i].path[k] \notin exclude_dirs

\* C2, amended: no line of the sketch names a directory whose basename is
\* excluded or an entry beneath one, and no record of Source Files is of a
\* file beneath such a directory; a plain file whose own name is in the
\* exclusion set is still listed.
C2_NoExcludedDirectory ==
    Built =>
        /\ \A e \in SketchEntries :
              \A k \in 1..Len(e.path) :
                  (k < Len(e.path) \/ e.kind = "dir") => e.path[k] \notin exclude_dirs
        /\ \A i \in Records :
              \A k \in 1..(Len(result[i].path) - 1) :
                  result[i].path[k] \notin exclude_dirs

\* excluded directories at two levels, each holding a file that passes the
\* filter, beside files that are listed and recorded
C2_Witness ==
    /\ pc = "done"
    /\ exclude_dirs = {NameX}
    /\ ~extensions.some
    /\ denied = {}
    /\ max_depth = NoneInt
    /\ {<<NameX, NameAP>>, <<NameS, NameX, NameAP>>, <<NameAP>>} \subseteq TreeFiles
    /\ ShowsFile(<<NameAP>>)
    /\ ShowsDir(<<NameS>>)
    /\ RecordsOf(<<NameAP>>) # {}

\* C3: when a visited directory has depth >= max-depth, none of its
\* subdirectories is descended into, but its own files that pass the
\* extension filter are still processed and recorded.
C3_FilesAtTheLimitRecorded ==
    pc = "done" =>
        \A d \in visited :
            (max_depth.some /\ Len(d) >= max_depth.v) =>
                /\ \A v \in visited : ~(IsPrefix(d, v) /\ v # d)
                /\ \A f \in NonDirs(d) :
                      PassesExtensions(f) => RecordsOf(d \o <<f>>) # {}

\* C4: every '## File:' header in Source Files is of a file whose name passes
\* the extension predicate (it ends with '.' + an allowed extension, or no
\* filter is set) and whose directory has depth strictly less than max-depth
\* (the scanned directory is 0), or max-depth is unset.
C4_HeadersPassFilterWithinDepth ==
    \A i \in DOMAIN result :
        result[i].t = "FileHeader" =>
            /\ PassesExtensions(Last(result[i].path))
            /\ ~max_depth.some \/ Len(result[i].path) - 1 < max_depth.v

\* C5: a file whose size is above max-size * 1024 bytes is never opened, none
\* of its content is in the document, its only record is the SKIPPED line
\* followed by a Size line, and file_count does not count it; a file of
\* max-size * 1024 bytes or less is not skipped.
C5_TooLargeSkippedUnread ==
    max_size.some =>
        /\ \A st \in stats :
            IF st.size > max_size.v * 1024
            THEN /\ st.path \notin opened
                 /\ ElementsOf("Content", st.path) = {}
                 /\ \E i \in DOMAIN result :
                        /\ RecordsOf(st.path) = {i}
                        /\ result[i].t = "Skipped"
                        /\ i < Len(result)
                        /\ result[i + 1].t = "SkippedSize"
            ELSE ElementsOf("Skipped", st.path) = {}
        /\ file_count <= Cardinality({st \in stats : st.size <= max_size.v * 1024})

\* one file of 1025 bytes skipped and one of 1024 bytes read, max-size 1
C5_Witness ==
    /\ pc = "done"
    /\ max_size = SomeInt(1)
    /\ \E a, b \in stats :
        /\ a.size = 1025 /\ ElementsOf("Skipped", a.path) # {}
        /\ b.size = 1024 /\ ElementsOf("Content", b.path) # {}

\* C6: the count in the summary line, the first line of the returned
\* document, is the number of files whose content was read and embedded;
\* skipped files and files with an error block are not counted.
C6_SummaryCountsEmbedded ==
    pc = "done" =>
        /\ result[1].t = "Summary"
        /\ result[1].count =
             Cardinality({i \in DOMAIN result :
                            /\ result[i].t = "Content"
                            /\ i < Len(result) /\ result[i + 1].t = "Fence"})

\* a document with an embedded file, a skipped one and two kinds of error block
C6_Witness ==
    /\ pc = "done"
    /\ result[1].count = 1
    /\ \E i \in DOMAIN result : result[i].t = "Skipped"
    /\ \E i, j \in DOMAIN result :
        /\ result[i].t = "Error" /\ result[i - 1].t = "Fence"
        /\ result[j].t = "Error" /\ result[j - 1].t # "Fence"

\* the directory entry is one the sketch walk comes to: its parent is the
\* scanned directory or a listed directory, within the depth the sketch expands
SketchReaches(d) ==
    /\ Parent(d) = <<>> \/ ShowsDir(Parent(d))
    /\ ~max_depth.some \/ Len(Parent(d)) <= max_depth.v

\* a file beneath d passes the extension filter and no directory between d and
\* the file is excluded
HasIncludedFile(d) ==
    \E f \in TreeFiles :
        /\ IsPrefix(d, f)
        /\ PassesExtensions(Last(f))
        /\ \A k \in (Len(d) + 1)..(Len(f) - 1) : f[k] \notin exclude_dirs

\* C7: a directory entry the sketch walk reaches, not excluded itself, has its
\* '<name>/' line in the sketch if and only if no extension filter is active
\* or its subtree holds a file that passes the filter and is not beneath an
\* excluded directory.
C7_ListedIffIncludedFile ==
    (Built /\ denied = {}) =>
        \A d \in TreeDirs :
            (SketchReaches(d) /\ Last(d) \notin exclude_dirs) =>
                (ShowsDir(d) <=> (~extensions.some \/ HasIncludedFile(d)))

\* a file beneath d passes the extension filter and every directory from d down
\* to it can be listed
HasReadableMatch(d) ==
    \E f \in TreeFiles :
        /\ IsPrefix(d, f)
        /\ PassesExtensions(Last(f))
        /\ \A k \in Len(d)..(Len(f) - 1) : SubSeq(f, 1, k) \notin denied

\* the sketch owes the directory d a line: its parent is shown and listable,
\* d is not excluded, and d holds a matching file or no filter is active
DueInSketch(d) ==
    /\ Parent(d) = <<>> \/ ShowsDir(Parent(d))
    /\ Parent(d) \notin denied
    /\ Last(d) \notin exclude_dirs
    /\ ~extensions.some \/ HasReadableMatch(d)

\* no file or directory line of the sketch is directly beneath d
NoEntryBeneath(d) ==
    \A e \in SketchEntries : e.kind # "placeholder" => Parent(e.path) # d

\* no line at all, a placeholder included, is directly beneath d
NoLineBeneath(d) == \A e \in SketchEntries : Parent(e.path) # d

\* C8: with max-depth d, a directory at depth exactly d (the scanned
\* directory is 0) is listed but not descended into: none of its entries
\* appears in the sketch.
C8_DepthLimitNotDescended ==
    (Built /\ max_depth.some) =>
        \A d \in TreeDirs \cup {<<>>} :
            Len(d) = max_depth.v =>
                /\ d # <<>> /\ DueInSketch(d) => ShowsDir(d)
                /\ NoEntryBeneath(d)

\* C8, amended: with max-depth d, a directory at depth exactly d + 1 is listed
\* (when the sketch owes it a line) but not descended into: no line of the
\* sketch, not even a placeholder, is beneath it; a listed directory at depth d or less, and the scanned
\* directory, is descended into: its files that pass the filter are listed.
C8_DepthLimitPlusOneNotDescended ==
    (Built /\ max_depth.some) =>
        \A d \in TreeDirs \cup {<<>>} :
            /\ Len(d) = max_depth.v + 1 =>
                  /\ DueInSketch(d) => ShowsDir(d)
                  /\ NoLineBeneath(d)
            /\ (Len(d) <= max_depth.v /\ (d = <<>> \/ ShowsDir(d)) /\ d \notin denied) =>
                  \A f \in NonDirs(d) :
                      PassesExtensions(f) => ShowsFile(d \o <<f>>)

\* max-depth 1: s/ at depth 1 is expanded, s/s/ at depth 2 is listed and its
\* file is not
C8_Witness ==
    /\ Built
    /\ max_depth = SomeInt(1)
    /\ {<<NameS, NameAP>>, <<NameS, NameS, NameAP>>} \subseteq TreeFiles
    /\ ShowsFile(<<NameS, NameAP>>)
    /\ ShowsDir(<<NameS, NameS>>)
    /\ ~ShowsFile(<<NameS, NameS, NameAP>>)

\* C9: a File header, its metadata line and an opening fence are in the
\* document only with the content and a closing fence after them; a file
\* whose read failed has its ERROR block and no File header.
C9_HeaderOnlyWithContent ==
    pc = "done" =>
        /\ \A i \in DOMAIN result :
              result[i].t = "FileHeader" =>
                  /\ i + 4 <= Len(result)
                  /\ result[i + 1].t = "Meta"
                  /\ result[i + 2].t = "Fence"
                  /\ result[i + 3] = ContentEl(result[i].path)
                  /\ result[i + 4].t = "Fence"
        /\ \A i \in DOMAIN result :
              result[i].t = "Error" => ElementsOf("FileHeader", result[i].path) = {}

\* C10: with every directory listable, every file that has a record in
\* Source Files is listed in the sketch, under the lines of its parent
\* directories.
C10_RecordedFilesAreSketched ==
    (Built /\ denied = {}) =>
        \A i \in Records :
            /\ ShowsFile(result[i].path)
            /\ \A k \in 1..(Len(result[i].path) - 1) :
                  ShowsDir(SubSeq(result[i].path, 1, k))

====
